---- MODULE Spec2Model ----
(***************************************************************************)
(* Model of Data_Struc_Finals/Sample_Accident_Program.py: the generator    *)
(* create_dummy_json, the two analysis functions search_accidents and      *)
(* find_most_frequent_by_key, and the run of the main block through        *)
(* read_and_analyze_json_file and its cleanup.                             *)
(*                                                                         *)
(* Python values are records [t, n, s]: t is the type ("str", "int",       *)
(* "none"), n the integer, s the text as a sequence of one-character       *)
(* strings.  A dict is a function from Fields to values in which the       *)
(* value Absent marks a key the dict does not have.  A list element is     *)
(* [kind, d, s]: a dict, or an int or str that a malformed file can hold.  *)
(***************************************************************************)
EXTENDS Integers, Sequences, FiniteSets, TLC

VARIABLES data_list, search_key, search_value, search_results, most_common,
          file, pc, out, gen, exit_status, most_common_city, most_common_car,
          calls

vars == <<data_list, search_key, search_value, search_results, most_common,
          file, pc, out, gen, exit_status, most_common_city, most_common_car,
          calls>>

\* Longest record sequence handed to the analysis functions.
MaxLen == 3

\* ---------------------------------------------------------------- values

Fields == {"id", "car", "location", "city", "date_time"}

S(chars) == [t |-> "str", n |-> 0, s |-> chars]

I(k) == [t |-> "int", n |-> k, s |-> <<>>]

NoneVal == [t |-> "none", n |-> 0, s |-> <<>>]

Absent == [t |-> "absent", n |-> 0, s |-> <<>>]

Dict(d) == [kind |-> "dict", d |-> d, s |-> <<>>]

NoFields == [f \in Fields |-> Absent]

IntElem == [kind |-> "int", d |-> NoFields, s |-> <<>>]

StrElem(chars) == [kind |-> "str", d |-> NoFields, s |-> chars]

Rec(id, car, location, city, date_time) ==
  Dict([f \in Fields |->
         CASE f = "id" -> id
           [] f = "car" -> car
           [] f = "location" -> location
           [] f = "city" -> city
           [] f = "date_time" -> date_time])

\* The list `data` of create_dummy_json.
data ==
  <<
     Rec(I(1),
         S(<<"T","o","y","o","t","a"," ","C","a","m","r","y">>),
         S(<<"M","a","i","n"," ","S","t",","," ","A","n","y","t","o","w","n">>),
         S(<<"A","n","y","t","o","w","n">>),
         S(<<"2","0","2","4","-","1","0","-","2","5"," ","0","8",":","3","0">>)),
     Rec(I(2),
         S(<<"H","o","n","d","a"," ","C","i","v","i","c">>),
         S(<<"H","i","g","h","w","a","y"," ","1","0","1">>),
         S(<<"S","p","r","i","n","g","f","i","e","l","d">>),
         S(<<"2","0","2","4","-","1","0","-","2","5"," ","1","5",":","4","5">>)),
     Rec(I(3),
         S(<<"F","o","r","d"," ","F","-","1","5","0">>),
         S(<<"I","n","d","u","s","t","r","i","a","l"," ","P","a","r","k"," ","B","l","v","d">>),
         S(<<"A","n","y","t","o","w","n">>),
         S(<<"2","0","2","4","-","1","0","-","2","6"," ","1","0",":","0","0">>)),
     Rec(I(4),
         S(<<"T","o","y","o","t","a"," ","C","a","m","r","y">>),
         S(<<"D","o","w","n","t","o","w","n"," ","L","o","o","p">>),
         S(<<"M","e","t","r","o","p","o","l","i","s">>),
         S(<<"2","0","2","4","-","1","0","-","2","6"," ","1","9",":","2","0">>)),
     Rec(I(5),
         S(<<"T","e","s","l","a"," ","M","o","d","e","l"," ","3">>),
         S(<<"R","e","s","i","d","e","n","t","i","a","l"," ","Z","o","n","e"," ","A">>),
         S(<<"S","p","r","i","n","g","f","i","e","l","d">>),
         S(<<"2","0","2","4","-","1","0","-","2","7"," ","0","6",":","1","5">>)),
     Rec(I(6),
         S(<<"H","o","n","d","a"," ","C","i","v","i","c">>),
         S(<<"M","a","i","n"," ","S","t",","," ","A","n","y","t","o","w","n">>),
         S(<<"A","n","y","t","o","w","n">>),
         S(<<"2","0","2","4","-","1","0","-","2","7"," ","1","2",":","0","0">>)),
     Rec(I(7),
         S(<<"T","o","y","o","t","a"," ","C","a","m","r","y">>),
         S(<<"H","i","g","h","w","a","y"," ","1","0","1">>),
         S(<<"S","p","r","i","n","g","f","i","e","l","d">>),
         S(<<"2","0","2","4","-","1","0","-","2","7"," ","1","7",":","5","0">>)),
     Rec(I(8),
         S(<<"F","o","r","d"," ","F","-","1","5","0">>),
         S(<<"O","c","e","a","n"," ","V","i","e","w"," ","D","r","i","v","e">>),
         S(<<"A","n","y","t","o","w","n">>),
         S(<<"2","0","2","4","-","1","0","-","2","8"," ","1","4",":","0","0">>))
  >>

\* ------------------------------------------------------- str() and lower()

\* lower() left out: the text is compared as written.
LowerChar_identity(c) == c

LowerChar(c) ==
  CASE c = "A" -> "a" [] c = "B" -> "b" [] c = "C" -> "c" [] c = "D" -> "d"
    [] c = "E" -> "e" [] c = "F" -> "f" [] c = "G" -> "g" [] c = "H" -> "h"
    [] c = "I" -> "i" [] c = "J" -> "j" [] c = "K" -> "k" [] c = "L" -> "l"
    [] c = "M" -> "m" [] c = "N" -> "n" [] c = "O" -> "o" [] c = "P" -> "p"
    [] c = "Q" -> "q" [] c = "R" -> "r" [] c = "S" -> "s" [] c = "T" -> "t"
    [] c = "U" -> "u" [] c = "V" -> "v" [] c = "W" -> "w" [] c = "X" -> "x"
    [] c = "Y" -> "y" [] c = "Z" -> "z"
    [] OTHER -> c

RECURSIVE Lower(_)
Lower(s) == IF s = <<>> THEN <<>> ELSE <<LowerChar(Head(s))>> \o Lower(Tail(s))

DigitChar(k) ==
  CASE k = 0 -> "0" [] k = 1 -> "1" [] k = 2 -> "2" [] k = 3 -> "3"
    [] k = 4 -> "4" [] k = 5 -> "5" [] k = 6 -> "6" [] k = 7 -> "7"
    [] k = 8 -> "8" [] k = 9 -> "9"

RECURSIVE Digits(_)
Digits(k) == IF k < 10 THEN <<DigitChar(k)>>
             ELSE Digits(k \div 10) \o <<DigitChar(k % 10)>>

\* str(v): text is itself, an int its decimal digits, None the text "None".
Str(v) ==
  CASE v.t = "str" -> v.s
    [] v.t = "int" -> IF v.n < 0 THEN <<"-">> \o Digits(0 - v.n) ELSE Digits(v.n)
    [] v.t = "none" -> <<"N", "o", "n", "e">>

\* Python's `sub in text` on strings.
Contains(sub, text) ==
  \E i \in 0..(Len(text) - Len(sub)) : SubSeq(text, i + 1, i + Len(sub)) = sub

FieldChars(k) ==
  CASE k = "id" -> <<"i", "d">>
    [] k = "car" -> <<"c", "a", "r">>
    [] k = "location" -> <<"l", "o", "c", "a", "t", "i", "o", "n">>
    [] k = "city" -> <<"c", "i", "t", "y">>
    [] k = "date_time" -> <<"d", "a", "t", "e", "_", "t", "i", "m", "e">>

\* record.get(key, default) on a dict.
Get(record, k, default) ==
  IF record.d[k] = Absent THEN default ELSE record.d[k]

\* Outcome of a call: the exception raised ("none" when it returns), the
\* returned value, and whether the function printed its own error line.
Returned(v, printed) == [exc |-> "none", val |-> v, msg |-> printed]

Raised(e) == [exc |-> e, val |-> <<>>, msg |-> FALSE]

\* ------------------------------------------------------ search_accidents

\* `search_key not in data_list[0]`: key lookup on a dict, substring test on
\* a str; on an int the operator raises TypeError (tested by the caller).
NotInFirst(first, k) ==
  CASE first.kind = "dict" -> first.d[k] = Absent
    [] first.kind = "str" -> ~Contains(FieldChars(k), first.s)
    [] OTHER -> FALSE

RECURSIVE SearchLoop(_, _, _, _)
SearchLoop(rest, k, search_term, results) ==
  IF rest = <<>> THEN Returned(results, FALSE)
  ELSE LET record == Head(rest) IN
       IF record.kind # "dict" THEN Raised("AttributeError")
       ELSE LET record_value == Lower(Str(Get(record, k, S(<<>>)))) IN
            SearchLoop(Tail(rest), k, search_term,
                       IF Contains(search_term, record_value)
                         THEN Append(results, record) ELSE results)

\* The search without the test of the first record.
search_accidents_unchecked(dl, k, v) == SearchLoop(dl, k, Lower(Str(v)), <<>>)

search_accidents(dl, k, v) ==
  IF dl = <<>> THEN Returned(<<>>, TRUE)
  ELSE IF dl[1].kind = "int" THEN Raised("TypeError")
  ELSE IF NotInFirst(dl[1], k) THEN Returned(<<>>, TRUE)
  ELSE SearchLoop(dl, k, Lower(Str(v)), <<>>)

\* --------------------------------------------- find_most_frequent_by_key

\* The comprehension without its `is not None` filter.
RECURSIVE Items_unfiltered(_, _, _)
Items_unfiltered(rest, k, items) ==
  IF rest = <<>> THEN Returned(items, FALSE)
  ELSE LET record == Head(rest) IN
       IF record.kind # "dict" THEN Raised("AttributeError")
       ELSE Items_unfiltered(Tail(rest), k, Append(items, Get(record, k, NoneVal)))

\* items = [record.get(key) for record in data_list
\*          if record.get(key) is not None]
RECURSIVE Items(_, _, _)
Items(rest, k, items) ==
  IF rest = <<>> THEN Returned(items, FALSE)
  ELSE LET record == Head(rest) IN
       IF record.kind # "dict" THEN Raised("AttributeError")
       ELSE LET v == Get(record, k, NoneVal) IN
            Items(Tail(rest), k, IF v # NoneVal THEN Append(items, v) ELSE items)

\* Counter(items): the distinct items in order of first occurrence, each
\* with its number of occurrences.
RECURSIVE Counter(_, _)
Counter(items, counts) ==
  IF items = <<>> THEN counts
  ELSE LET v == Head(items)
           at == {i \in 1..Len(counts) : counts[i][1] = v} IN
       Counter(Tail(items),
               IF at = {} THEN Append(counts, <<v, 1>>)
               ELSE LET i == CHOOSE j \in at : TRUE IN
                    [counts EXCEPT ![i] = <<v, counts[i][2] + 1>>])

\* The least common entry instead of the most common one.
RECURSIVE MostCommon_least(_, _)
MostCommon_least(counts, best) ==
  IF counts = <<>> THEN best
  ELSE MostCommon_least(Tail(counts),
                        IF Head(counts)[2] < best[2] THEN Head(counts) ELSE best)

\* A maximum that keeps the last of several maximal entries.
RECURSIVE MostCommon_last(_, _)
MostCommon_last(counts, best) ==
  IF counts = <<>> THEN best
  ELSE MostCommon_last(Tail(counts),
                       IF Head(counts)[2] >= best[2] THEN Head(counts) ELSE best)

\* counts.most_common(1)[0]: max() over the items by count, which keeps the
\* first of several maximal entries.
RECURSIVE MostCommon(_, _)
MostCommon(counts, best) ==
  IF counts = <<>> THEN best
  ELSE MostCommon(Tail(counts),
                  IF Head(counts)[2] > best[2] THEN Head(counts) ELSE best)

find_most_frequent_by_key(dl, k) ==
  IF dl = <<>> THEN Returned(<<NoneVal, 0>>, FALSE)
  ELSE LET items == Items(dl, k, <<>>) IN
       IF items.exc # "none" THEN items
       ELSE IF items.val = <<>> THEN Returned(<<NoneVal, 0>>, FALSE)
       ELSE LET counts == Counter(items.val, <<>>) IN
            Returned(MostCommon(Tail(counts), Head(counts)), FALSE)

\* ------------------------------------------- calls of the two functions

NoFile == [exists |-> FALSE, kind |-> "none", elems |-> <<>>]

NoResult == <<NoneVal, 0>>

UpperChar(c) ==
  CASE c = "a" -> "A" [] c = "b" -> "B" [] c = "c" -> "C" [] c = "d" -> "D"
    [] c = "e" -> "E" [] c = "f" -> "F" [] c = "g" -> "G" [] c = "h" -> "H"
    [] c = "i" -> "I" [] c = "j" -> "J" [] c = "k" -> "K" [] c = "l" -> "L"
    [] c = "m" -> "M" [] c = "n" -> "N" [] c = "o" -> "O" [] c = "p" -> "P"
    [] c = "q" -> "Q" [] c = "r" -> "R" [] c = "s" -> "S" [] c = "t" -> "T"
    [] c = "u" -> "U" [] c = "v" -> "V" [] c = "w" -> "W" [] c = "x" -> "X"
    [] c = "y" -> "Y" [] c = "z" -> "Z"
    [] OTHER -> c

\* Every spelling of a text in upper- and lower-case letters.
RECURSIVE CaseVariants(_)
CaseVariants(s) ==
  IF s = <<>> THEN {<<>>}
  ELSE {<<c>> \o r : c \in {Head(s), UpperChar(Head(s))}, r \in CaseVariants(Tail(s))}

Anytown == <<"a", "n", "y", "t", "o", "w", "n">>

An == S(<<"A", "n">>)

\* Records over the fields city and car: a field is missing, None, a text or
\* an integer.
CityValues == {Absent, NoneVal, An, S(<<"b">>), I(1)}

CarValues == {Absent, An}

Records == {Rec(Absent, car, Absent, city, Absent) : car \in CarValues, city \in CityValues}

RECURSIVE SeqsUpTo(_, _)
SeqsUpTo(n, R) ==
  IF n = 0 THEN {<<>>}
  ELSE LET shorter == SeqsUpTo(n - 1, R) IN
       shorter \cup {Append(q, r) : q \in {x \in shorter : Len(x) = n - 1}, r \in R}

Keys == {"city", "car", "location"}

Queries == {S(<<>>), S(<<"a", "N">>), S(<<"N">>), S(<<"o", "n">>), I(1), NoneVal}

Idle == /\ file = NoFile
        /\ out = <<>>
        /\ gen = "none"
        /\ exit_status = <<>>
        /\ most_common_city = NoResult
        /\ most_common_car = NoResult

FnInit ==
  /\ pc = "call"
  /\ \/ /\ data_list \in SeqsUpTo(MaxLen, Records)
        /\ search_key \in Keys
        /\ search_value \in Queries
     \/ /\ data_list = data
        /\ search_key \in {"city", "car"}
        /\ search_value \in {S(q) : q \in CaseVariants(Anytown)}
  /\ search_results = <<>>
  /\ most_common = NoResult
  /\ calls = <<>>
  /\ Idle

CallSearch ==
  /\ pc = "call"
  /\ LET r == search_accidents(data_list, search_key, search_value) IN
       /\ r.exc = "none"
       /\ search_results' = r.val
  /\ calls' = Append(calls, "search_accidents")
  /\ pc' = "searched"
  /\ UNCHANGED <<data_list, search_key, search_value, most_common, file, out,
                 gen, exit_status, most_common_city, most_common_car>>

CallMostFrequent ==
  /\ pc = "call"
  /\ LET r == find_most_frequent_by_key(data_list, search_key) IN
       /\ r.exc = "none"
       /\ most_common' = r.val
  /\ calls' = Append(calls, "find_most_frequent_by_key")
  /\ pc' = "counted"
  /\ UNCHANGED <<data_list, search_key, search_value, search_results, file, out,
                 gen, exit_status, most_common_city, most_common_car>>

FnNext == CallSearch \/ CallMostFrequent

SpecFn == FnInit /\ [][FnNext]_vars

\* ------------------------------------------------------ the run of main

\* The file at json_filename: whether it exists and what its content
\* parses to.  kind is "invalid" (not JSON), "scalar", "object" or "list";
\* elems are the elements of a list.
File(kind) == [exists |-> TRUE, kind |-> kind, elems |-> <<>>]

ListFile(elems) == [exists |-> TRUE, kind |-> "list", elems |-> elems]

OldRecord ==
  Rec(I(12), S(<<"K", "i", "a">>), S(<<"P", "i", "e", "r">>),
      S(<<"A", "n", "y", "t", "o", "w", "n">>), S(<<"2", "0", "2", "3">>))

NoIdRecord ==
  Rec(Absent, S(<<"K", "i", "a">>), Absent,
      S(<<"O", "l", "d", " ", "A", "n", "y", "t", "o", "w", "n">>), Absent)

NoCityRecord == Rec(I(7), S(<<"K", "i", "a">>), Absent, Absent, S(<<"2", "0", "2", "3">>))

\* What may lie at the path before the program starts.
PreFiles ==
  {NoFile, File("invalid"), File("scalar"), File("object")}
    \cup {ListFile(e) : e \in {<<>>,
                               <<IntElem, IntElem>>,
                               <<StrElem(<<"c", "i", "t", "y">>)>>,
                               <<StrElem(<<"x">>)>>,
                               <<OldRecord>>,
                               <<OldRecord, OldRecord, NoCityRecord>>,
                               <<NoIdRecord>>,
                               <<NoCityRecord, OldRecord>>,
                               <<OldRecord, IntElem>>}}

Reported(m) == \E i \in 1..Len(out) : out[i] = m

RunInit ==
  /\ pc = "create"
  /\ file \in PreFiles
  /\ data_list = <<>>
  /\ search_key = "city"
  /\ search_value = S(<<"A", "n", "y", "t", "o", "w", "n">>)
  /\ search_results = <<>>
  /\ most_common = NoResult
  /\ most_common_city = NoResult
  /\ most_common_car = NoResult
  /\ out = <<>>
  /\ gen = "none"
  /\ exit_status = <<>>
  /\ calls = <<>>

\* create_dummy_json(json_filename): open(filename, 'w') and json.dump
\* succeed, or open raises IOError and the path is left as it was, or the
\* write raises IOError after open has truncated or created the file.
create_dummy_json ==
  /\ pc = "create"
  /\ \E outcome \in {"ok", "open_failed", "write_failed"} :
       /\ gen' = outcome
       /\ file' = CASE outcome = "ok" -> ListFile(data)
                    [] outcome = "open_failed" -> file
                    [] outcome = "write_failed" -> File("invalid")
       /\ out' = Append(out, IF outcome = "ok" THEN "created" ELSE "error_creating")
  /\ pc' = "exists"
  /\ UNCHANGED <<data_list, search_key, search_value, search_results, most_common,
                 exit_status, most_common_city, most_common_car, calls>>

\* read_and_analyze_json_file, lines 97-101: the existence check.
ExistsCheck ==
  /\ pc = "exists"
  /\ IF file.exists
       THEN /\ out' = Append(out, "reading")
            /\ pc' = "load"
            /\ UNCHANGED exit_status
       ELSE /\ out' = out \o <<"reading", "not_found">>
            /\ pc' = "done"
            /\ exit_status' = <<0>>
  /\ UNCHANGED <<data_list, search_key, search_value, search_results, most_common,
                 file, gen, most_common_city, most_common_car, calls>>

\* Lines 103-112 with their handlers: open for reading, json.load, the
\* isinstance test.
Load ==
  /\ pc = "load"
  /\ \E opened \in {"ok", "PermissionError"} :
       IF opened # "ok"
         THEN /\ out' = Append(out, "unexpected:PermissionError")
              /\ pc' = "finally"
              /\ UNCHANGED data_list
         ELSE CASE file.kind = "invalid" ->
                     /\ out' = Append(out, "not_valid_json")
                     /\ pc' = "finally"
                     /\ UNCHANGED data_list
                [] file.kind \in {"scalar", "object"} ->
                     /\ out' = Append(out, "not_a_list")
                     /\ pc' = "finally"
                     /\ UNCHANGED data_list
                [] file.kind = "list" ->
                     /\ data_list' = file.elems
                     /\ out' = Append(out, "loaded")
                     /\ pc' = "analysis1"
  /\ UNCHANGED <<search_key, search_value, search_results, most_common, file, gen,
                 exit_status, most_common_city, most_common_car, calls>>

\* result['id'], result['car'], result['date_time'] of the print loop.
PrintableResult(result) ==
  \A f \in {"id", "car", "date_time"} : result.d[f] # Absent

\* Lines 114-120: the search demonstration and the printing of its results.
Analysis1 ==
  /\ pc = "analysis1"
  /\ calls' = Append(calls, "search_accidents")
  /\ LET r == search_accidents(data_list, "city", search_value) IN
       IF r.exc # "none"
         THEN /\ out' = Append(out, "unexpected:" \o r.exc)
              /\ pc' = "finally"
              /\ UNCHANGED search_results
         ELSE /\ search_results' = r.val
              /\ IF \A i \in 1..Len(r.val) : PrintableResult(r.val[i])
                   THEN /\ out' = out \o (IF r.msg THEN <<"key_not_found">> ELSE <<>>)
                                      \o <<"analysis1">>
                        /\ pc' = "analysis2"
                   ELSE /\ out' = out \o <<"analysis1", "unexpected:KeyError">>
                        /\ pc' = "finally"
  /\ UNCHANGED <<data_list, search_key, search_value, most_common, file, gen,
                 exit_status, most_common_city, most_common_car>>

\* Lines 122-126: the most frequent city.
Analysis2 ==
  /\ pc = "analysis2"
  /\ calls' = Append(calls, "find_most_frequent_by_key")
  /\ LET r == find_most_frequent_by_key(data_list, "city") IN
       IF r.exc # "none"
         THEN /\ out' = Append(out, "unexpected:" \o r.exc)
              /\ pc' = "finally"
              /\ UNCHANGED most_common_city
         ELSE /\ most_common_city' = r.val
              /\ out' = Append(out, "analysis2")
              /\ pc' = "analysis3"
  /\ UNCHANGED <<data_list, search_key, search_value, search_results, most_common,
                 file, gen, exit_status, most_common_car>>

\* Lines 128-132: the most frequent car.
Analysis3 ==
  /\ pc = "analysis3"
  /\ calls' = Append(calls, "find_most_frequent_by_key")
  /\ LET r == find_most_frequent_by_key(data_list, "car") IN
       IF r.exc # "none"
         THEN /\ out' = Append(out, "unexpected:" \o r.exc)
              /\ UNCHANGED most_common_car
         ELSE /\ most_common_car' = r.val
              /\ out' = Append(out, "analysis3")
  /\ pc' = "finally"
  /\ UNCHANGED <<data_list, search_key, search_value, search_results, most_common,
                 file, gen, exit_status, most_common_city>>

\* The cleanup as the last statement of the try block: skipped on every
\* path that leaves the block early.
Finally_in_try ==
  /\ pc = "finally"
  /\ IF file.exists /\ Reported("analysis3")
       THEN /\ file' = NoFile
            /\ out' = Append(out, "cleaned")
       ELSE UNCHANGED <<file, out>>
  /\ pc' = "done"
  /\ exit_status' = <<0>>
  /\ UNCHANGED <<data_list, search_key, search_value, search_results, most_common,
                 gen, most_common_city, most_common_car, calls>>

\* Lines 141-145: the finally block.  os.remove deletes the file, or raises
\* OSError, which nothing catches: the interpreter exits with status 1.
Finally ==
  /\ pc = "finally"
  /\ IF file.exists
       THEN \E removed \in BOOLEAN :
              IF removed
                THEN /\ file' = NoFile
                     /\ out' = Append(out, "cleaned")
                     /\ pc' = "done"
                     /\ exit_status' = <<0>>
                ELSE /\ pc' = "crashed"
                     /\ exit_status' = <<1>>
                     /\ UNCHANGED <<file, out>>
       ELSE /\ pc' = "done"
            /\ exit_status' = <<0>>
            /\ UNCHANGED <<file, out>>
  /\ UNCHANGED <<data_list, search_key, search_value, search_results, most_common,
                 gen, most_common_city, most_common_car, calls>>

RunNext ==
  \/ create_dummy_json
  \/ ExistsCheck
  \/ Load
  \/ Analysis1
  \/ Analysis2
  \/ Analysis3
  \/ Finally

SpecRun == RunInit /\ [][RunNext]_vars

\* --------------------------------------------------------------- claims

\* Number of records of dl whose field k holds v.
CountOf(dl, k, v) == Cardinality({i \in 1..Len(dl) : dl[i].d[k] = v})

\* The distinct values field k takes in dl, a missing field and None apart.
FieldValues(dl, k) == {dl[i].d[k] : i \in 1..Len(dl)} \ {Absent, NoneVal}

FirstIndex(dl, k, v) ==
  CHOOSE i \in 1..Len(dl) : dl[i].d[k] = v /\ \A j \in 1..(i - 1) : dl[j].d[k] # v

Top(dl, k) ==
  {v \in FieldValues(dl, k) :
     \A w \in FieldValues(dl, k) : CountOf(dl, k, v) >= CountOf(dl, k, w)}

\* C1: on a non-empty record sequence find_most_frequent_by_key returns
\* (v, c) where c is the number of records whose field equals v, records
\* without the field or with None not counted, and no other value of the
\* field occurs more than c times.
C1_MostFrequentIsMaximal ==
  (pc = "counted" /\ data_list # <<>>) =>
    /\ most_common[2] =
         Cardinality({i \in 1..Len(data_list) :
                        /\ data_list[i].d[search_key] = most_common[1]
                        /\ data_list[i].d[search_key] \notin {Absent, NoneVal}})
    /\ \A w \in FieldValues(data_list, search_key) :
         most_common[2] >= CountOf(data_list, search_key, w)

C1_Witness ==
  /\ pc = "counted"
  /\ Len(data_list) = 3
  /\ Cardinality(FieldValues(data_list, search_key)) = 2
  /\ most_common[2] = 2
  /\ data_list[1].d[search_key] # most_common[1]

\* C2: when several values share the highest count, the one returned is the
\* one whose first occurrence is earliest in the sequence.
C2_TieFirstOccurrence ==
  (pc = "counted" /\ Cardinality(Top(data_list, search_key)) >= 2) =>
    /\ most_common[1] \in Top(data_list, search_key)
    /\ \A w \in Top(data_list, search_key) :
         FirstIndex(data_list, search_key, most_common[1])
           <= FirstIndex(data_list, search_key, w)

C2_Witness ==
  /\ pc = "counted"
  /\ Cardinality(Top(data_list, search_key)) = 3
  /\ most_common[1] = data_list[1].d[search_key]

\* C3: the result is (None, 0) exactly when the sequence is empty or every
\* record lacks the field or holds None in it; otherwise the count is at
\* least 1 and the value is not None.
C3_NoDataExactly ==
  pc = "counted" =>
    /\ (most_common = NoResult) <=> (FieldValues(data_list, search_key) = {})
    /\ FieldValues(data_list, search_key) # {} =>
         (most_common[2] >= 1 /\ most_common[1] # NoneVal)

C3_Witness ==
  /\ pc = "counted"
  /\ most_common = NoResult
  /\ \E i \in 1..Len(data_list) : data_list[i].d[search_key] = NoneVal
  /\ \E i \in 1..Len(data_list) : data_list[i].d[search_key] = Absent

\* The test of C4 on one record: it has the field and the field's text,
\* lower-cased, contains the lower-cased text of the query.
Matches(record) ==
  /\ record.d[search_key] # Absent
  /\ Contains(Lower(Str(search_value)), Lower(Str(record.d[search_key])))

\* C4: when the first record has the field, search_accidents returns exactly
\* the records that have a value for the field whose lower-cased text
\* contains the lower-cased text of the query, in their original order.
C4_SearchExactSubsequence ==
  (pc = "searched" /\ data_list # <<>> /\ data_list[1].d[search_key] # Absent) =>
    search_results = SelectSeq(data_list, Matches)

\* C5: when the dataset is empty or its first record lacks the search key,
\* the result is empty, whatever later records hold.
C5_MissingKeyEmptyResult ==
  (pc = "searched" /\ (data_list = <<>> \/ data_list[1].d[search_key] = Absent)) =>
    search_results = <<>>

C5_Witness ==
  /\ pc = "searched"
  /\ Len(data_list) >= 2
  /\ data_list[1].d[search_key] = Absent
  /\ Matches(data_list[2])
  /\ search_value # S(<<>>)
  /\ search_results = <<>>

\* C10: on the 8 generated records, a search of city for "anytown" in any
\* letter case returns the records with ids 1, 3, 6, 8; the most frequent
\* city is ("Anytown", 4) and the most frequent car ("Toyota Camry", 3).
C10_FixedDataset ==
  (data_list = data /\ Lower(Str(search_value)) = Anytown) =>
    /\ (pc = "searched" /\ search_key = "city") =>
         /\ [i \in 1..Len(search_results) |-> search_results[i].d["id"].n] = <<1, 3, 6, 8>>
         /\ search_results = <<data[1], data[3], data[6], data[8]>>
    /\ (pc = "counted" /\ search_key = "city") =>
         most_common = <<S(<<"A", "n", "y", "t", "o", "w", "n">>), 4>>
    /\ (pc = "counted" /\ search_key = "car") =>
         most_common = <<S(<<"T", "o", "y", "o", "t", "a", " ", "C", "a", "m", "r", "y">>), 3>>

C10_Witness ==
  /\ pc = "searched"
  /\ data_list = data
  /\ search_key = "city"
  /\ search_value = S(<<"a", "N", "Y", "t", "O", "w", "n">>)
  /\ Len(search_results) = 4

\* C6: once generate, analyze and cleanup have run to their end, the file
\* does not exist, whichever way generation and analysis went.
C6_NoFileAfterRun == pc = "done" => ~file.exists

C6_Witness ==
  /\ pc = "done"
  /\ gen = "write_failed"
  /\ Reported("not_valid_json")
  /\ Reported("cleaned")
  /\ ~file.exists

\* C7: when the generator's write fails, no file is produced and the
\* analysis reports the file as not found and loads no records.
C7_WriteFailureMeansAbsent ==
  (gen \in {"open_failed", "write_failed"} /\ pc \notin {"create", "exists"}) =>
    /\ Reported("error_creating")
    /\ Reported("not_found")
    /\ ~Reported("loaded")
    /\ ~file.exists

\* C8: content that is not valid JSON is reported as a parse error; a parsed
\* value that is not a list of records is reported as a shape error; in
\* both cases neither analysis function is called.
C8_LoadRejectsBadContent ==
  (pc = "finally" /\ ~Reported("unexpected:PermissionError")) =>
    /\ file.kind = "invalid" =>
         (Reported("not_valid_json") /\ calls = <<>>)
    /\ (\/ file.kind \in {"scalar", "object"}
        \/ file.kind = "list" /\ \E i \in 1..Len(file.elems) : file.elems[i].kind # "dict") =>
         (Reported("not_a_list") /\ calls = <<>>)

\* C9: whatever fails in creation, existence check, open, parse, analysis
\* or removal, the program terminates normally with exit status 0.
C9_AlwaysExitsZero == pc \in {"done", "crashed"} => exit_status = <<0>>

====
